---- MODULE Spec2Model ----
(***************************************************************************)
(* A model of sus (main.go): the concurrent multi-source line counter.     *)
(* One worker goroutine per input source counts its lines (processInput),  *)
(* hands its mapping over on resultsChan and, when aggregating, merges it  *)
(* into aggregateCounts under aggregateMutex.  A closer goroutine closes   *)
(* the channel once the WaitGroup reaches zero; main collects the results, *)
(* appends the aggregate and prints.  exitWithError ends the process.      *)
(*                                                                         *)
(* A line is modelled as <<c, n>>: the string made of n copies of the      *)
(* character c, so its length is n and lowercasing acts on c.              *)
(***************************************************************************)
EXTENDS Integers, Sequences, FiniteSets, TLC

VARIABLES
    inputs,          \* inputs[i]: the stream of source i: [lines, fail]
    inputNames,      \* inputNames[i]: the name of source i
    ignoreCase,      \* flag -i
    aggregate,       \* flag -aggregate
    verbose,         \* flag -verbose
    mpc,             \* position of the main goroutine
    idx,             \* loop variable of the spawning loop (1-based)
    wpc,             \* wpc[i]: position of worker i
    counts,          \* counts[i]: the mapping built by worker i (fileCounts)
    werr,            \* werr[i]: the error worker i passed to exitWithError
    todo,            \* todo[i]: keys the merge loop of worker i has yet to visit
    cur,             \* cur[i]: <<line, value read>> inside aggregateCounts[line] += count
    sent,            \* history: the workers in the order of their sends
    wg,              \* the WaitGroup counter
    resultsChan,     \* buffered channel contents
    chanClosed,      \* resultsChan has been closed
    cpc,             \* position of the closer goroutine
    aggregateCounts, \* the shared aggregate mapping
    aggregateMutex,  \* 0 when free, else the worker holding it
    allResults,      \* the list built (and returned) by processInputs
    stdout,          \* what has been written to standard output
    stderr,          \* what has been written to standard error
    exitCode,        \* -1 while the process runs, else its exit status
    high,            \* flag -high
    low,             \* flag -low
    highPercent,     \* flag -hp: [nan, v], v in tenths of a percent
    lowPercent,      \* flag -lp
    showVersion,     \* flag -version
    flagFiles,       \* flag -file, split at the commas: a list of file names
    fs,              \* fs[name]: "missing", "empty" or "data"
    stdinPiped,      \* standard input is not a character device
    stdinStream,     \* what standard input delivers
    cinputs,         \* collectInputs: inputs
    cnames,          \* collectInputs: inputNames
    files,           \* collectInputs: files, the handles cleanup closes
    opened,          \* the file handles that are open (a handle is an index of flagFiles)
    fidx,            \* collectInputs: position of the loop over the file names
    cerr,            \* collectInputs: the error returned
    call,            \* a call of a pure function: its name and arguments
    ret              \* the value that call returned

vars == <<inputs, inputNames, ignoreCase, aggregate, verbose, mpc, idx, wpc,
          counts, werr, todo, cur, sent, wg, resultsChan, chanClosed, cpc,
          aggregateCounts, aggregateMutex, allResults, stdout, stderr, exitCode,
          high, low, highPercent, lowPercent, showVersion, flagFiles, fs, stdinPiped,
          stdinStream, cinputs, cnames, files, opened, fidx, cerr, call, ret>>

\* the selection flags and the environment: never written after flag.Parse
flags == <<high, low, highPercent, lowPercent, showVersion, flagFiles, fs, stdinPiped,
           stdinStream>>

\* the locals of collectInputs
coll == <<cinputs, cnames, files, fidx, cerr>>

fn == <<call, ret>>

config == <<inputs, inputNames, ignoreCase, aggregate, verbose>>

----
(* Program constants and model bounds *)

maxLineLength == 1000

MaxSources == 2

MaxLines == 2

Names == {"f1", "f2"}

ShortLines == {<<"a", 1>>, <<"b", 1>>}

EdgeLines == {<<"a", 1>>, <<"A", 1>>, <<"a", maxLineLength - 1>>,
              <<"a", maxLineLength>>, <<"a", maxLineLength + 1>>}

N == Len(inputs)

Workers == 1..N

----
(* Go maps as functions with a finite domain *)

EmptyMap == [k \in {} |-> 0]

Get(m, k) == IF k \in DOMAIN m THEN m[k] ELSE 0

\* m[k] += c
AddTo(m, k, c) == [x \in DOMAIN m \cup {k} |-> IF x = k THEN Get(m, k) + c ELSE m[x]]

RECURSIVE SeqSum(_, _)
SeqSum(s, k) == IF s = <<>> THEN 0 ELSE Get(Head(s), k) + SeqSum(Tail(s), k)

----
(* processInput *)

LineLen(line) == line[2]

\* strings.ToLower
ToLower(line) == <<IF line[1] = "A" THEN "a" ELSE line[1], line[2]>>

\* scanner.Buffer(make([]byte, maxLineLength), maxLineLength): a token is
\* delivered only if it and its terminator fit a buffer that cannot grow
\* beyond maxLineLength bytes; otherwise Scan stops with ErrTooLong.
ScanFits(line) == LineLen(line) < maxLineLength

RECURSIVE ScanLoop(_, _, _, _)
ScanLoop(in, k, cnt, ic) ==
    IF k > Len(in.lines)
    THEN [err |-> IF in.fail THEN "ReadError" ELSE "none", counts |-> cnt]
    ELSE IF ~ScanFits(in.lines[k])
    THEN [err |-> "TokenTooLong", counts |-> cnt]
    ELSE IF LineLen(in.lines[k]) > maxLineLength
    THEN [err |-> "LineExceedsMax", counts |-> cnt]
    ELSE LET line == IF ic THEN ToLower(in.lines[k]) ELSE in.lines[k]
         IN  ScanLoop(in, k + 1, AddTo(cnt, line, 1), ic)

processInput(in, ic) == ScanLoop(in, 1, EmptyMap, ic)

----
(* the -hp / -lp arguments: NaN, or a decimal given in tenths of a percent.
   0 and 100 are float64 values and the conversion is monotone, so comparing
   the decimal with them is comparing the float64 stored by the flag *)

NaN == [nan |-> TRUE, v |-> 0]

Pct(tenths) == [nan |-> FALSE, v |-> tenths]

\* p < tenths and p > tenths on float64: every comparison with NaN is false
PctLess(p, tenths) == ~p.nan /\ p.v < tenths

PctGreater(p, tenths) == ~p.nan /\ p.v > tenths

----
(* float64 arithmetic of determineCounts, on exact integers.  A nonzero
   float64 is [m, e] standing for m * 2^e with 2^52 <= m < 2^53; an integer
   of that size is a little-endian sequence of Limbs digits in base LimbBase *)

LimbBase == 32768

Limbs == 5

Big(n) == [i \in 1..Limbs |-> IF i = 1 THEN n % LimbBase
                              ELSE IF i = 2 THEN n \div LimbBase ELSE 0]

ToInt(a) == a[1] + LimbBase * a[2]

BigZero == Big(0)

\* 2^52 and 2^53: 52 = 3 * 15 + 7
Two52 == [i \in 1..Limbs |-> IF i = 4 THEN 128 ELSE 0]

Two53 == [i \in 1..Limbs |-> IF i = 4 THEN 256 ELSE 0]

\* 2^37, so that q < 2^37 gives q * LimbBase < 2^52
Two37 == [i \in 1..Limbs |-> IF i = 3 THEN 128 ELSE 0]

RECURSIVE MulCarry(_, _, _, _)
MulCarry(a, k, i, carry) ==
    IF i > Len(a) THEN <<>>
    ELSE LET t == a[i] * k + carry
         IN  <<t % LimbBase>> \o MulCarry(a, k, i + 1, t \div LimbBase)

\* a * k and a + 1
MulSmall(a, k) == MulCarry(a, k, 1, 0)

AddOne(a) == MulCarry(a, 1, 1, 1)

\* quotient and remainder of a by d, long division from the top digit
RECURSIVE DivRem(_, _, _, _)
DivRem(a, d, i, rem) ==
    IF i = 0 THEN [q |-> <<>>, r |-> rem]
    ELSE LET t == rem * LimbBase + a[i]
             rest == DivRem(a, d, i - 1, t % d)
         IN  [q |-> Append(rest.q, t \div d), r |-> rest.r]

DivSmall(a, d) == DivRem(a, d, Len(a), 0)

\* a < b
RECURSIVE BigLessFrom(_, _, _)
BigLessFrom(a, b, i) ==
    IF i = 0 THEN FALSE
    ELSE IF a[i] # b[i] THEN a[i] < b[i]
    ELSE BigLessFrom(a, b, i - 1)

BigLess(a, b) == BigLessFrom(a, b, Len(a))

FZero == [m |-> BigZero, e |-> 0]

\* the float64 nearest to (n / d) * 2^e, ties to even: what every IEEE 754
\* operation and strconv.ParseFloat return for an exact result n/d * 2^e
RECURSIVE RoundRatio(_, _, _)
RoundRatio(n, d, e) ==
    LET dr == DivSmall(n, d)
    IN  IF BigLess(dr.q, Two37) THEN RoundRatio(MulSmall(n, LimbBase), d, e - 15)
        ELSE IF BigLess(dr.q, Two52) THEN RoundRatio(MulSmall(n, 2), d, e - 1)
        ELSE IF ~BigLess(dr.q, Two53) THEN RoundRatio(n, 2 * d, e + 1)
        ELSE LET up == 2 * dr.r > d \/ (2 * dr.r = d /\ dr.q[1] % 2 = 1)
                 m == IF up THEN AddOne(dr.q) ELSE dr.q
             IN  IF m = Two53 THEN [m |-> Two52, e |-> e + 1] ELSE [m |-> m, e |-> e]

\* the -hp / -lp argument, a decimal in tenths, as flag.Float64 stores it
ParseFloat(tenths) == IF tenths = 0 THEN FZero ELSE RoundRatio(Big(tenths), 10, 0)

\* float64(totalItems) * percent
FMulInt(totalItems, x) ==
    IF totalItems = 0 \/ x = FZero THEN FZero
    ELSE RoundRatio(MulSmall(x.m, totalItems), 1, x.e)

\* x / 100
FDiv100(x) == IF x = FZero THEN FZero ELSE RoundRatio(x.m, 100, x.e)

\* a shifted right by k bits, and whether a one was shifted out
RECURSIVE ShiftRight(_, _, _)
ShiftRight(a, k, lost) ==
    IF k = 0 THEN [q |-> a, lost |-> lost]
    ELSE IF k >= 15
    THEN LET dr == DivSmall(a, LimbBase)
         IN  ShiftRight(dr.q, k - 15, lost \/ dr.r # 0)
    ELSE LET dr == DivSmall(a, 2)
         IN  ShiftRight(dr.q, k - 1, lost \/ dr.r = 1)

\* int(math.Ceil(x)) for 0 <= x < 2^30
CeilInt(x) ==
    LET s == ShiftRight(x.m, 0 - x.e, FALSE)
    IN  ToInt(s.q) + (IF s.lost THEN 1 ELSE 0)

----
(* validateFlags *)

\* the error returned, "none" for nil; 0 and 100 percent are 0 and 1000 tenths
validateFlags(h, l, hp, lp) ==
    IF h < 0 \/ l < 0
    THEN "NegativeCount"
    ELSE IF PctLess(hp, 0) \/ PctGreater(hp, 100 * 10)
            \/ PctLess(lp, 0) \/ PctGreater(lp, 100 * 10)
    THEN "PercentOutOfRange"
    ELSE "none"

----
(* sortItems, determineCounts, printSortedResults *)

\* the byte of a character
Byte(c) == CASE c = "A" -> 65 [] c = "a" -> 97 [] c = "b" -> 98

\* items[i].value < items[j].value on strings: bytewise; on the strings c^n
\* and d^m the first byte decides unless c = d, and then the shorter is less
StringLess(x, y) ==
    IF x[2] = 0 THEN y[2] > 0
    ELSE IF y[2] = 0 THEN FALSE
    ELSE IF x[1] = y[1] THEN x[2] < y[2]
    ELSE Byte(x[1]) < Byte(y[1])

\* less that orders by count alone
lessNoTieBreak(a, b) == a.count > b.count

\* the less function handed to sort.Slice
less(a, b) ==
    IF a.count = b.count THEN StringLess(a.value, b.value) ELSE a.count > b.count

Swap(s, i, j) == [s EXCEPT ![i] = s[j], ![j] = s[i]]

\* sort.Slice on a slice of at most 12 elements is an insertion sort:
\* for j := i; j > a && less(data[j], data[j-1]); j-- { swap(j, j-1) }
RECURSIVE InsertDown(_, _)
InsertDown(s, j) ==
    IF j > 1 /\ less(s[j], s[j - 1]) THEN InsertDown(Swap(s, j, j - 1), j - 1) ELSE s

RECURSIVE InsertionSort(_, _)
InsertionSort(s, i) ==
    IF i > Len(s) THEN s ELSE InsertionSort(InsertDown(s, i), i + 1)

sortItems(items) == InsertionSort(items, 2)

min(a, b) == IF a < b THEN a ELSE b

\* int(math.Ceil(float64(totalItems) * percent / 100))
CeilPercent(totalItems, p) == CeilInt(FDiv100(FMulInt(totalItems, ParseFloat(p.v))))

\* determineCounts without the cap at totalItems
determineCountsUncapped(totalItems, h, l, hp, lp) ==
    << IF PctGreater(hp, 0) THEN CeilPercent(totalItems, hp) ELSE h,
       IF PctGreater(lp, 0) THEN CeilPercent(totalItems, lp) ELSE l >>

\* determineCounts that tests highPercent for the low direction too
determineCountsOneTest(totalItems, h, l, hp, lp) ==
    << min(IF PctGreater(hp, 0) THEN CeilPercent(totalItems, hp) ELSE h, totalItems),
       min(IF PctGreater(hp, 0) THEN CeilPercent(totalItems, lp) ELSE l, totalItems) >>

\* <<highCount, lowCount>>
determineCounts(totalItems, h, l, hp, lp) ==
    << min(IF PctGreater(hp, 0) THEN CeilPercent(totalItems, hp) ELSE h, totalItems),
       min(IF PctGreater(lp, 0) THEN CeilPercent(totalItems, lp) ELSE l, totalItems) >>

\* the slices a range over the map can build: its items in any order
ItemOrders(m) ==
    LET n == Cardinality(DOMAIN m)
    IN  {[k \in 1..n |-> [value |-> f[k], count |-> m[f[k]]]] :
            f \in {g \in [1..n -> DOMAIN m] : \A i, j \in 1..n : g[i] = g[j] => i = j}}

\* printFrequencyItems: the header line and one line per item
printFrequencyItems(its, count, percent, label) ==
    [view |-> label,
     header |-> IF PctGreater(percent, 0) THEN <<"percent", percent, count>>
                ELSE <<"count", count>>,
     items |-> its]

\* printAllItems: one line per item
printAllItems(its) == [view |-> "All", header |-> <<>>, items |-> its]

BlankLine == [view |-> "Blank", header |-> <<>>, items |-> <<>>]

\* what printSortedResults prints once the range loop has built unsorted
PrintViews(sorted, highCount, lowCount, hp, lp) ==
    (IF highCount > 0
     THEN <<printFrequencyItems(SubSeq(sorted, 1, highCount), highCount, hp, "Highest")>>
     ELSE <<>>)
    \o (IF lowCount > 0
        THEN (IF highCount > 0 THEN <<BlankLine>> ELSE <<>>)
             \o <<printFrequencyItems(
                     SubSeq(sorted, Len(sorted) - lowCount + 1, Len(sorted)),
                     lowCount, lp, "Lowest")>>
        ELSE <<>>)
    \o (IF highCount = 0 /\ lowCount = 0 THEN <<printAllItems(sorted)>> ELSE <<>>)

\* printSortedResults that takes the Lowest view from the front of the slice
printSortedResultsFront(unsorted, h, l, hp, lp) ==
    LET sorted == sortItems(unsorted)
        totalItems == Len(sorted)
        dc == determineCounts(totalItems, h, l, hp, lp)
        highCount == min(dc[1], totalItems)
        lowCount == min(dc[2], totalItems)
    IN  (IF highCount > 0
         THEN <<printFrequencyItems(SubSeq(sorted, 1, highCount), highCount, hp, "Highest")>>
         ELSE <<>>)
        \o (IF lowCount > 0
            THEN (IF highCount > 0 THEN <<BlankLine>> ELSE <<>>)
                 \o <<printFrequencyItems(SubSeq(sorted, 1, lowCount), lowCount, lp, "Lowest")>>
            ELSE <<>>)
        \o (IF highCount = 0 /\ lowCount = 0 THEN <<printAllItems(sorted)>> ELSE <<>>)

printSortedResults(unsorted, h, l, hp, lp) ==
    LET sorted == sortItems(unsorted)
        totalItems == Len(sorted)
        dc == determineCounts(totalItems, h, l, hp, lp)
        highCount == min(dc[1], totalItems)
        lowCount == min(dc[2], totalItems)
    IN  PrintViews(sorted, highCount, lowCount, hp, lp)

----
(* Initial states *)

SeqsUpTo(S, n) == UNION {[1..k -> S] : k \in 0..n}

Streams(L) == [lines : SeqsUpTo(L, MaxLines), fail : BOOLEAN]

\* source 1 is named "f1"; another source has a name of its own or "f1" again
NameChoices(n) ==
    {f \in [1..n -> Names] : \A i \in 1..n : f[i] \in {"f1", IF i = 1 THEN "f1" ELSE "f2"}}

\* the locals of processInputs as it is entered
StartWorkers ==
    /\ idx = 1
    /\ wpc = [i \in Workers |-> "unborn"]
    /\ counts = [i \in Workers |-> EmptyMap]
    /\ werr = [i \in Workers |-> "none"]
    /\ todo = [i \in Workers |-> {}]
    /\ cur = [i \in Workers |-> <<>>]
    /\ sent = <<>>
    /\ wg = 0
    /\ resultsChan = <<>>
    /\ chanClosed = FALSE
    /\ cpc = "unborn"
    /\ aggregateCounts = EmptyMap
    /\ aggregateMutex = 0
    /\ allResults = <<>>
    /\ stdout = <<>>
    /\ stderr = <<>>
    /\ exitCode = -1

NoCall == [f |-> "none"]

NotReturned == [done |-> FALSE]

\* no pure function is being called on its own
NoFn == call = NoCall /\ ret = NotReturned

\* the selection flags at their defaults
DefaultSelection ==
    /\ high = 0 /\ low = 0
    /\ highPercent = Pct(0) /\ lowPercent = Pct(0)
    /\ showVersion = FALSE

\* the locals of collectInputs as it is entered, no file open
NothingCollected ==
    /\ cinputs = <<>> /\ cnames = <<>>
    /\ files = <<>> /\ opened = {}
    /\ fidx = 1
    /\ cerr = "none"

\* selection flags left at their defaults, nothing collected by collectInputs
NoGlue ==
    /\ DefaultSelection
    /\ flagFiles = <<>>
    /\ fs = [n \in Names |-> "data"]
    /\ stdinPiped = FALSE
    /\ stdinStream = [lines |-> <<>>, fail |-> FALSE]
    /\ NothingCollected

\* processInputs is entered with its arguments given
Start == mpc = "spawn" /\ StartWorkers /\ NoGlue /\ NoFn

Init ==
    /\ \E n \in 0..MaxSources :
          /\ inputs \in [1..n -> Streams(ShortLines)]
          /\ inputNames \in NameChoices(n)
    /\ ignoreCase = FALSE
    /\ aggregate \in BOOLEAN
    /\ verbose \in BOOLEAN
    /\ Start

\* one source, lines around the length limit and differing by case
InitLine ==
    /\ inputs \in [1..1 -> Streams(EdgeLines)]
    /\ inputNames = <<"f1">>
    /\ ignoreCase \in BOOLEAN
    /\ aggregate \in BOOLEAN
    /\ verbose = FALSE
    /\ Start

Running == exitCode = -1

----
(* processInputs: the main goroutine *)

\* for idx, input := range inputs { wg.Add(1); go func(...) }
Spawn ==
    /\ Running /\ mpc = "spawn" /\ idx <= N
    /\ wg' = wg + 1
    /\ wpc' = [wpc EXCEPT ![idx] = "start"]
    /\ idx' = idx + 1
    /\ UNCHANGED <<config, flags, coll, opened, fn, mpc, counts, werr, todo, cur, sent, resultsChan, chanClosed, cpc,
                   aggregateCounts, aggregateMutex, allResults, stdout, stderr, exitCode>>

\* go func() { wg.Wait(); close(resultsChan) }()
SpawnCloser ==
    /\ Running /\ mpc = "spawn" /\ idx > N
    /\ cpc' = "wait"
    /\ mpc' = "collect"
    /\ UNCHANGED <<config, flags, coll, opened, fn, idx, wpc, counts, werr, todo, cur, sent, wg, resultsChan, chanClosed,
                   aggregateCounts, aggregateMutex, allResults, stdout, stderr, exitCode>>

\* Collect that puts each received result in front of the list
CollectPrepend ==
    /\ Running /\ mpc = "collect"
    /\ IF resultsChan # <<>>
       THEN /\ allResults' = <<Head(resultsChan)>> \o allResults
            /\ resultsChan' = Tail(resultsChan)
            /\ mpc' = mpc
       ELSE /\ chanClosed
            /\ mpc' = "append"
            /\ UNCHANGED <<allResults, resultsChan>>
    /\ UNCHANGED <<config, flags, coll, opened, fn, idx, wpc, counts, werr, todo, cur, sent, wg, chanClosed, cpc,
                   aggregateCounts, aggregateMutex, stdout, stderr, exitCode>>

\* for result := range resultsChan { allResults = append(allResults, result) }
Collect ==
    /\ Running /\ mpc = "collect"
    /\ IF resultsChan # <<>>
       THEN /\ allResults' = Append(allResults, Head(resultsChan))
            /\ resultsChan' = Tail(resultsChan)
            /\ mpc' = mpc
       ELSE /\ chanClosed
            /\ mpc' = "append"
            /\ UNCHANGED <<allResults, resultsChan>>
    /\ UNCHANGED <<config, flags, coll, opened, fn, idx, wpc, counts, werr, todo, cur, sent, wg, chanClosed, cpc,
                   aggregateCounts, aggregateMutex, stdout, stderr, exitCode>>

AggregateResult == [name |-> "Aggregate", counts |-> aggregateCounts, src |-> 0]

\* AppendAggregate without the len(inputs) > 1 test
AppendAggregateAlways ==
    /\ Running /\ mpc = "append"
    /\ allResults' = IF aggregate
                     THEN Append(allResults, AggregateResult)
                     ELSE allResults
    /\ mpc' = "returned"
    /\ UNCHANGED <<config, flags, coll, opened, fn, idx, wpc, counts, werr, todo, cur, sent, wg, resultsChan, chanClosed, cpc,
                   aggregateCounts, aggregateMutex, stdout, stderr, exitCode>>

\* if aggregate && len(inputs) > 1 { append Aggregate }; return allResults
AppendAggregate ==
    /\ Running /\ mpc = "append"
    /\ allResults' = IF aggregate /\ N > 1
                     THEN Append(allResults, AggregateResult)
                     ELSE allResults
    /\ mpc' = "returned"
    /\ UNCHANGED <<config, flags, coll, opened, fn, idx, wpc, counts, werr, todo, cur, sent, wg, resultsChan, chanClosed, cpc,
                   aggregateCounts, aggregateMutex, stdout, stderr, exitCode>>

\* a choice of range order for the mapping of each result
RangeOrders(results) ==
    {o \in [1..Len(results) -> UNION {ItemOrders(results[k].counts) : k \in 1..Len(results)}] :
        \A k \in 1..Len(results) : o[k] \in ItemOrders(results[k].counts)}

\* textOutput(results, high, low, highPercent, lowPercent): for each result,
\* in list order, a blank line (but for the first), the header line with the
\* name and what printSortedResults prints; order[k] is the order in which
\* the range loop of printSortedResults visits the mapping of result k
textOutput(results, order, h, l, hp, lp) ==
    [k \in 1..Len(results) |->
        [kind |-> "result", name |-> results[k].name, blank |-> k > 1,
         views |-> printSortedResults(order[k], h, l, hp, lp)]]

TextOutput ==
    /\ Running /\ mpc = "returned"
    /\ \E order \in RangeOrders(allResults) :
          stdout' = stdout \o textOutput(allResults, order, high, low, highPercent, lowPercent)
    /\ mpc' = "printed"
    /\ UNCHANGED <<config, flags, coll, opened, fn, idx, wpc, counts, werr, todo, cur, sent, wg, resultsChan, chanClosed, cpc,
                   aggregateCounts, aggregateMutex, allResults, stderr, exitCode>>

\* cleanup(): for _, f := range files { f.Close() }, on the set of open handles
cleanup(open) == open \ {files[k] : k \in 1..Len(files)}

\* main returns: the deferred cleanup closes the files, the process ends with status 0
MainReturn ==
    /\ Running /\ mpc = "printed"
    /\ opened' = cleanup(opened)
    /\ exitCode' = 0
    /\ mpc' = "exited"
    /\ UNCHANGED <<config, flags, coll, fn, idx, wpc, counts, werr, todo, cur, sent, wg, resultsChan, chanClosed, cpc,
                   aggregateCounts, aggregateMutex, allResults, stdout, stderr>>

----
(* processInputs: worker i *)

Notice(kind, i) == [kind |-> kind, name |-> inputNames[i]]

\* if verbose { fmt.Printf("Processing input: %s\n", name) }
WorkerStart(i) ==
    /\ Running /\ wpc[i] = "start"
    /\ stdout' = IF verbose THEN Append(stdout, Notice("processing", i)) ELSE stdout
    /\ wpc' = [wpc EXCEPT ![i] = "process"]
    /\ UNCHANGED <<config, flags, coll, opened, fn, mpc, idx, counts, werr, todo, cur, sent, wg, resultsChan, chanClosed, cpc,
                   aggregateCounts, aggregateMutex, allResults, stderr, exitCode>>

\* WorkerProcess that carries on with the partial mapping after an error
WorkerProcessIgnoresError(i) ==
    /\ Running /\ wpc[i] = "process"
    /\ LET r == processInput(inputs[i], ignoreCase)
       IN  /\ counts' = [counts EXCEPT ![i] = r.counts]
           /\ werr' = [werr EXCEPT ![i] = r.err]
           /\ wpc' = [wpc EXCEPT ![i] = "send"]
    /\ UNCHANGED <<config, flags, coll, opened, fn, mpc, idx, todo, cur, sent, wg, resultsChan, chanClosed, cpc,
                   aggregateCounts, aggregateMutex, allResults, stdout, stderr, exitCode>>

\* fileCounts := processInput(input, ignoreCase); an error enters exitWithError
WorkerProcess(i) ==
    /\ Running /\ wpc[i] = "process"
    /\ LET r == processInput(inputs[i], ignoreCase)
       IN  /\ counts' = [counts EXCEPT ![i] = r.counts]
           /\ werr' = [werr EXCEPT ![i] = r.err]
           /\ wpc' = [wpc EXCEPT ![i] = IF r.err = "none" THEN "send" ELSE "report"]
    /\ UNCHANGED <<config, flags, coll, opened, fn, mpc, idx, todo, cur, sent, wg, resultsChan, chanClosed, cpc,
                   aggregateCounts, aggregateMutex, allResults, stdout, stderr, exitCode>>

\* WorkerResult with the name read through the loop variable of the spawning loop
WorkerResultLoopVar(i) ==
    [name |-> inputNames[IF idx > N THEN N ELSE idx], counts |-> counts[i], src |-> i]

WorkerResult(i) == [name |-> inputNames[i], counts |-> counts[i], src |-> i]

\* resultsChan <- inputResult{name, fileCounts}   (capacity len(inputs));
\* a send on a closed channel panics
WorkerSend(i) ==
    /\ Running /\ wpc[i] = "send"
    /\ IF chanClosed
       THEN /\ exitCode' = 2
            /\ UNCHANGED <<resultsChan, wpc, sent>>
       ELSE /\ Len(resultsChan) < N
            /\ resultsChan' = Append(resultsChan, WorkerResult(i))
            /\ sent' = Append(sent, i)
            /\ wpc' = [wpc EXCEPT ![i] = IF aggregate THEN "lock" ELSE "finish"]
            /\ UNCHANGED exitCode
    /\ UNCHANGED <<config, flags, coll, opened, fn, mpc, idx, counts, werr, todo, cur, wg, chanClosed, cpc,
                   aggregateCounts, aggregateMutex, allResults, stdout, stderr>>

\* WorkerLock that does not wait for the mutex to be free
WorkerLockNoMutex(i) ==
    /\ Running /\ wpc[i] = "lock"
    /\ aggregateMutex' = i
    /\ todo' = [todo EXCEPT ![i] = DOMAIN counts[i]]
    /\ wpc' = [wpc EXCEPT ![i] = "merge"]
    /\ UNCHANGED <<config, flags, coll, opened, fn, mpc, idx, counts, werr, cur, sent, wg, resultsChan, chanClosed,
                   cpc, aggregateCounts, allResults, stdout, stderr, exitCode>>

\* aggregateMutex.Lock() and the start of the range loop
WorkerLock(i) ==
    /\ Running /\ wpc[i] = "lock"
    /\ aggregateMutex = 0
    /\ aggregateMutex' = i
    /\ todo' = [todo EXCEPT ![i] = DOMAIN counts[i]]
    /\ wpc' = [wpc EXCEPT ![i] = "merge"]
    /\ UNCHANGED <<config, flags, coll, opened, fn, mpc, idx, counts, werr, cur, sent, wg, resultsChan, chanClosed,
                   cpc, aggregateCounts, allResults, stdout, stderr, exitCode>>

\* aggregateCounts[line] += count: the read of aggregateCounts[line], for the
\* next key of the range loop (keys come in any order)
WorkerMergeRead(i) ==
    /\ Running /\ wpc[i] = "merge"
    /\ \E line \in todo[i] :
          cur' = [cur EXCEPT ![i] = <<line, Get(aggregateCounts, line)>>]
    /\ wpc' = [wpc EXCEPT ![i] = "mergeWrite"]
    /\ UNCHANGED <<config, flags, coll, opened, fn, mpc, idx, counts, werr, todo, sent, wg, resultsChan, chanClosed,
                   cpc, aggregateCounts, aggregateMutex, allResults, stdout, stderr, exitCode>>

\* m[k] = v
Put(m, k, v) == [x \in DOMAIN m \cup {k} |-> IF x = k THEN v ELSE m[x]]

\* WorkerMergeWrite with fileCounts[line] += count in place of
\* aggregateCounts[line] += count
WorkerMergeWriteBack(i) ==
    /\ Running /\ wpc[i] = "mergeWrite"
    /\ counts' = [counts EXCEPT ![i] =
                     Put(counts[i], cur[i][1], counts[i][cur[i][1]] + counts[i][cur[i][1]])]
    /\ todo' = [todo EXCEPT ![i] = todo[i] \ {cur[i][1]}]
    /\ cur' = [cur EXCEPT ![i] = <<>>]
    /\ wpc' = [wpc EXCEPT ![i] = "merge"]
    /\ UNCHANGED <<config, flags, coll, opened, fn, mpc, idx, werr, sent, wg, resultsChan, chanClosed, cpc,
                   aggregateCounts, aggregateMutex, allResults, stdout, stderr, exitCode>>

\* WorkerMergeWrite with the mutex released after the first key
WorkerMergeWriteUnlocks(i) ==
    /\ Running /\ wpc[i] = "mergeWrite"
    /\ aggregateCounts' = Put(aggregateCounts, cur[i][1], cur[i][2] + counts[i][cur[i][1]])
    /\ todo' = [todo EXCEPT ![i] = todo[i] \ {cur[i][1]}]
    /\ cur' = [cur EXCEPT ![i] = <<>>]
    /\ wpc' = [wpc EXCEPT ![i] = "merge"]
    /\ aggregateMutex' = 0
    /\ UNCHANGED <<config, flags, coll, opened, fn, mpc, idx, counts, werr, sent, wg, resultsChan, chanClosed, cpc,
                   allResults, stdout, stderr, exitCode>>

\* aggregateCounts[line] += count: the write of the sum
WorkerMergeWrite(i) ==
    /\ Running /\ wpc[i] = "mergeWrite"
    /\ aggregateCounts' = Put(aggregateCounts, cur[i][1], cur[i][2] + counts[i][cur[i][1]])
    /\ todo' = [todo EXCEPT ![i] = todo[i] \ {cur[i][1]}]
    /\ cur' = [cur EXCEPT ![i] = <<>>]
    /\ wpc' = [wpc EXCEPT ![i] = "merge"]
    /\ UNCHANGED <<config, flags, coll, opened, fn, mpc, idx, counts, werr, sent, wg, resultsChan, chanClosed, cpc,
                   aggregateMutex, allResults, stdout, stderr, exitCode>>

\* WorkerUnlock that leaves the mutex locked
WorkerUnlockKeepsMutex(i) ==
    /\ Running /\ wpc[i] = "merge" /\ todo[i] = {}
    /\ wpc' = [wpc EXCEPT ![i] = "finish"]
    /\ UNCHANGED <<config, flags, coll, opened, fn, mpc, idx, counts, werr, todo, cur, sent, wg, resultsChan,
                   chanClosed, cpc, aggregateCounts, aggregateMutex, allResults, stdout, stderr, exitCode>>

\* the range loop is over: aggregateMutex.Unlock()
WorkerUnlock(i) ==
    /\ Running /\ wpc[i] = "merge" /\ todo[i] = {}
    /\ aggregateMutex' = 0
    /\ wpc' = [wpc EXCEPT ![i] = "finish"]
    /\ UNCHANGED <<config, flags, coll, opened, fn, mpc, idx, counts, werr, todo, cur, sent, wg, resultsChan,
                   chanClosed, cpc, aggregateCounts, allResults, stdout, stderr, exitCode>>

\* if verbose { fmt.Printf("Finished processing input: %s\n", name) }
WorkerFinish(i) ==
    /\ Running /\ wpc[i] = "finish"
    /\ stdout' = IF verbose THEN Append(stdout, Notice("finished", i)) ELSE stdout
    /\ wpc' = [wpc EXCEPT ![i] = "defer"]
    /\ UNCHANGED <<config, flags, coll, opened, fn, mpc, idx, counts, werr, todo, cur, sent, wg, resultsChan, chanClosed, cpc,
                   aggregateCounts, aggregateMutex, allResults, stderr, exitCode>>

\* defer wg.Done()
WorkerDone(i) ==
    /\ Running /\ wpc[i] = "defer"
    /\ wg' = wg - 1
    /\ wpc' = [wpc EXCEPT ![i] = "done"]
    /\ UNCHANGED <<config, flags, coll, opened, fn, mpc, idx, counts, werr, todo, cur, sent, resultsChan, chanClosed, cpc,
                   aggregateCounts, aggregateMutex, allResults, stdout, stderr, exitCode>>

----
(* exitWithError, called from processInput in worker i *)

\* ExitReport that prints nothing
ExitReportSilent(i) ==
    /\ Running /\ wpc[i] = "report"
    /\ wpc' = [wpc EXCEPT ![i] = "exit"]
    /\ UNCHANGED <<config, flags, coll, opened, fn, mpc, idx, counts, werr, todo, cur, sent, wg, resultsChan, chanClosed, cpc,
                   aggregateCounts, aggregateMutex, allResults, stdout, stderr, exitCode>>

\* fmt.Fprintln(os.Stderr, err)
ExitReport(i) ==
    /\ Running /\ wpc[i] = "report"
    /\ stderr' = Append(stderr, [err |-> werr[i], src |-> i])
    /\ wpc' = [wpc EXCEPT ![i] = "exit"]
    /\ UNCHANGED <<config, flags, coll, opened, fn, mpc, idx, counts, werr, todo, cur, sent, wg, resultsChan, chanClosed, cpc,
                   aggregateCounts, aggregateMutex, allResults, stdout, exitCode>>

\* osExit(1)
ExitCall(i) ==
    /\ Running /\ wpc[i] = "exit"
    /\ exitCode' = 1
    /\ UNCHANGED <<config, flags, coll, opened, fn, mpc, idx, wpc, counts, werr, todo, cur, sent, wg, resultsChan, chanClosed,
                   cpc, aggregateCounts, aggregateMutex, allResults, stdout, stderr>>

----
(* the closer goroutine *)

\* CloserWait that does not wait for the counter to reach zero
CloserNoWait ==
    /\ Running /\ cpc = "wait"
    /\ cpc' = "close"
    /\ UNCHANGED <<config, flags, coll, opened, fn, mpc, idx, wpc, counts, werr, todo, cur, sent, wg, resultsChan, chanClosed,
                   aggregateCounts, aggregateMutex, allResults, stdout, stderr, exitCode>>

\* a closer that waits for the results to be sent, not for the workers to end
CloserWaitForSends ==
    /\ Running /\ cpc = "wait" /\ Len(sent) = N
    /\ cpc' = "close"
    /\ UNCHANGED <<config, flags, coll, opened, fn, mpc, idx, wpc, counts, werr, todo, cur, sent, wg, resultsChan, chanClosed,
                   aggregateCounts, aggregateMutex, allResults, stdout, stderr, exitCode>>

\* a closer that waits for the first worker to end, not for all of them
CloserWaitForFirst ==
    /\ Running /\ cpc = "wait" /\ (N = 0 \/ wg < N)
    /\ cpc' = "close"
    /\ UNCHANGED <<config, flags, coll, opened, fn, mpc, idx, wpc, counts, werr, todo, cur, sent, wg, resultsChan, chanClosed,
                   aggregateCounts, aggregateMutex, allResults, stdout, stderr, exitCode>>

\* wg.Wait()
CloserWait ==
    /\ Running /\ cpc = "wait" /\ wg = 0
    /\ cpc' = "close"
    /\ UNCHANGED <<config, flags, coll, opened, fn, mpc, idx, wpc, counts, werr, todo, cur, sent, wg, resultsChan, chanClosed,
                   aggregateCounts, aggregateMutex, allResults, stdout, stderr, exitCode>>

\* close(resultsChan)
CloserClose ==
    /\ Running /\ cpc = "close"
    /\ chanClosed' = TRUE
    /\ cpc' = "done"
    /\ UNCHANGED <<config, flags, coll, opened, fn, mpc, idx, wpc, counts, werr, todo, cur, sent, wg, resultsChan,
                   aggregateCounts, aggregateMutex, allResults, stdout, stderr, exitCode>>

----
Next ==
    \/ Spawn
    \/ SpawnCloser
    \/ Collect
    \/ AppendAggregate
    \/ TextOutput
    \/ MainReturn
    \/ CloserWait
    \/ CloserClose
    \/ \E i \in Workers : WorkerStart(i)
    \/ \E i \in Workers : WorkerProcess(i)
    \/ \E i \in Workers : WorkerSend(i)
    \/ \E i \in Workers : WorkerLock(i)
    \/ \E i \in Workers : WorkerMergeRead(i)
    \/ \E i \in Workers : WorkerMergeWrite(i)
    \/ \E i \in Workers : WorkerUnlock(i)
    \/ \E i \in Workers : WorkerFinish(i)
    \/ \E i \in Workers : WorkerDone(i)
    \/ \E i \in Workers : ExitReport(i)
    \/ \E i \in Workers : ExitCall(i)

Spec == Init /\ [][Next]_vars

SpecLine == InitLine /\ [][Next]_vars

\* the Go scheduler runs every runnable goroutine: some enabled step is taken
FairSpec == Spec /\ WF_vars(Next)

----
(* sortItems, determineCounts and printSortedResults called on their own,
   as main_test.go calls them *)

MaxItems == 4

MaxCount == 2

ItemValues == {<<"A", 1>>, <<"a", 1>>, <<"a", 2>>, <<"b", 1>>, <<"b", 2>>}

\* the mappings with at most n keys
Mappings(n) ==
    UNION {[K -> 1..MaxCount] : K \in {S \in SUBSET ItemValues : Cardinality(S) <= n}}

Totals == {0, 1, 3, 50, 100, 250}

Highs == {-1, 0, 5, 15, 60, 2147483647}

Lows == {0, 5, 10}

Percents == {NaN, Pct(-1), Pct(0), Pct(1), Pct(55), Pct(100), Pct(200), Pct(600),
             Pct(644), Pct(1000), Pct(1001)}

LowPercents == {NaN, Pct(0), Pct(1), Pct(100), Pct(644)}

SortCalls == {[f |-> "sortItems", items |-> o] : o \in UNION {ItemOrders(m) : m \in Mappings(MaxItems)}}

CountCalls ==
    [f : {"determineCounts"}, totalItems : Totals, high : Highs, low : Lows,
     highPercent : Percents, lowPercent : LowPercents]

PrintCalls ==
    [f : {"printSortedResults"}, counts : Mappings(MaxItems - 1), high : {0, 1, 2, 5},
     low : {0, 1, 2}, highPercent : {Pct(0), Pct(500), Pct(1000)},
     lowPercent : {Pct(0), Pct(334)}]

\* no processInputs in progress
Idle ==
    /\ inputs = <<>> /\ inputNames = <<>>
    /\ ignoreCase = FALSE /\ aggregate = FALSE /\ verbose = FALSE
    /\ mpc = "fn"
    /\ StartWorkers
    /\ NoGlue

InitFn ==
    /\ Idle
    /\ call \in SortCalls \cup CountCalls \cup PrintCalls
    /\ ret = NotReturned

Return(val) ==
    /\ ~ret.done
    /\ ret' = [done |-> TRUE, val |-> val]
    /\ UNCHANGED <<config, flags, coll, opened, call, mpc, idx, wpc, counts, werr, todo, cur, sent,
                   wg, resultsChan, chanClosed, cpc, aggregateCounts, aggregateMutex,
                   allResults, stdout, stderr, exitCode>>

SortItemsCall ==
    /\ call.f = "sortItems"
    /\ Return(sortItems(call.items))

DetermineCountsCall ==
    /\ call.f = "determineCounts"
    /\ Return(determineCounts(call.totalItems, call.high, call.low,
                              call.highPercent, call.lowPercent))

\* the range over the mapping visits its keys in some order
PrintSortedResultsCall ==
    /\ call.f = "printSortedResults"
    /\ \E order \in ItemOrders(call.counts) :
          Return(printSortedResults(order, call.high, call.low,
                                    call.highPercent, call.lowPercent))

NextFn == SortItemsCall \/ DetermineCountsCall \/ PrintSortedResultsCall

SpecFn == InitFn /\ [][NextFn]_vars

----
(* Properties *)

\* processInputs has returned its list to main
Returned == mpc \in {"returned", "printed", "exited"}

\* what counting means, stated on the stream itself
Norm(line) == IF ignoreCase THEN ToLower(line) ELSE line

Occurrences(i, key) ==
    Cardinality({k \in 1..Len(inputs[i].lines) : Norm(inputs[i].lines[k]) = key})

KeysOf(i) == {Norm(inputs[i].lines[k]) : k \in 1..Len(inputs[i].lines)}

LineCounts(i) == [key \in KeysOf(i) |-> Occurrences(i, key)]

RECURSIVE TotalOccurrences(_, _)
TotalOccurrences(n, key) ==
    IF n = 0 THEN 0 ELSE Occurrences(n, key) + TotalOccurrences(n - 1, key)

InMerge(i) == wpc[i] \in {"merge", "mergeWrite"}

\* C1: when processInputs has returned with aggregate set and more than one
\* source, the mapping of the last result, "Aggregate", has exactly the union
\* of the keys of the per-source results and, for every line, the sum of that
\* line's counts over the per-source results, which is the number of times
\* the line occurs in all the inputs together: no increment is lost.
C1_AggregateIsSum ==
    (Returned /\ aggregate /\ N > 1) =>
        LET n == Len(allResults)
            agg == allResults[n]
            per == [k \in 1..(n - 1) |-> allResults[k].counts]
        IN  /\ agg.name = "Aggregate"
            /\ DOMAIN agg.counts = UNION {DOMAIN per[k] : k \in 1..(n - 1)}
            /\ \A line \in DOMAIN agg.counts :
                  /\ agg.counts[line] = SeqSum(per, line)
                  /\ agg.counts[line] = TotalOccurrences(N, line)

\* two sources share a line and each has a line of its own count: x is summed
C1_Witness ==
    /\ Returned /\ aggregate /\ N = 2
    /\ Get(counts[1], <<"a", 1>>) = 2
    /\ Get(counts[2], <<"a", 1>>) = 1
    /\ Get(counts[2], <<"b", 1>>) = 1
    /\ allResults[3].counts = (<<"a", 1>> :> 3) @@ (<<"b", 1>> :> 1)

\* C2: at most one worker is between aggregateMutex.Lock and
\* aggregateMutex.Unlock, a worker inside its merge holds the mutex for the
\* whole of it, and a step of a worker that reads (cur) or writes the
\* aggregate mapping is taken by the worker holding the mutex.
C2_MergeExclusive ==
    /\ [](\A i \in Workers :
            InMerge(i) => /\ aggregateMutex = i
                          /\ \A j \in Workers : InMerge(j) => j = i)
    /\ [][/\ aggregateCounts' # aggregateCounts =>
               \E i \in Workers : /\ aggregateMutex = i /\ aggregateMutex' = i
                                  /\ wpc[i] = "mergeWrite" /\ wpc'[i] = "merge"
          /\ \A i \in Workers :
               (cur'[i] # cur[i]) => (aggregateMutex = i /\ aggregateMutex' = i)]_vars

\* a worker is in the middle of its merge while another waits for the mutex
C2_Witness ==
    \E i, j \in Workers :
        /\ wpc[i] = "mergeWrite" /\ aggregateMutex = i
        /\ wpc[j] = "lock"
        /\ aggregateCounts # EmptyMap

\* C3: the returned list has one result per source, N in all, plus one more,
\* named "Aggregate" and last, exactly when aggregate is set and N > 1.
C3_OnePerSourcePlusAggregate ==
    Returned =>
        /\ Len(allResults) = N + (IF aggregate /\ N > 1 THEN 1 ELSE 0)
        /\ \A i \in Workers :
              Cardinality({k \in DOMAIN allResults : allResults[k].src = i}) = 1
        /\ \A k \in DOMAIN allResults :
              /\ (allResults[k].name = "Aggregate") <=> (allResults[k].src = 0)
              /\ (allResults[k].src = 0) <=>
                     (aggregate /\ N > 1 /\ k = Len(allResults))

\* one source with aggregate set: the list is that source's result alone
C3_Witness ==
    /\ Returned /\ aggregate /\ N = 1
    /\ Len(allResults) = 1 /\ allResults[1].src = 1
    /\ aggregateCounts # EmptyMap

\* C4: once processInputs has returned every worker has run to its end: it
\* has counted, sent its result, finished and released its merge and called
\* wg.Done; the channel is closed and drained.
C4_ReturnAfterAllWorkers ==
    Returned =>
        /\ \A i \in Workers :
              /\ wpc[i] = "done"
              /\ \E k \in DOMAIN sent : sent[k] = i
              /\ todo[i] = {} /\ cur[i] = <<>>
        /\ aggregateMutex = 0
        /\ wg = 0
        /\ chanClosed /\ resultsChan = <<>>

\* processInputs has returned for two sources that both merged
C4_Witness ==
    /\ mpc = "returned" /\ N = 2 /\ aggregate
    /\ \A i \in Workers : wpc[i] = "done" /\ counts[i] # EmptyMap

\* C5 (as claimed): the k-th returned result is the one of the k-th input.
C5_InputOrder ==
    Returned => \A k \in 1..N : allResults[k].src = k

\* C5 (amended): the non-aggregate results are the first N of the returned
\* list, one per source, in the order in which the workers sent them on the
\* channel, which need not be the order of the inputs.
C5_SendOrder ==
    Returned =>
        /\ Len(allResults) >= N
        /\ Len(sent) = N
        /\ {sent[k] : k \in 1..N} = Workers
        /\ \A k \in 1..N : allResults[k].src = sent[k]

\* the second source finished first and its result comes first
C5_Witness ==
    /\ Returned /\ N = 2
    /\ allResults[1].src = 2 /\ allResults[2].src = 1

\* C6 (as claimed): for every source i exactly one non-aggregate result of
\* the returned list is named inputNames[i], and it holds the line counts of
\* inputs[i] alone.
C6_OneResultPerName ==
    Returned =>
        \A i \in Workers :
            LET ks == {k \in DOMAIN allResults :
                          allResults[k].src # 0 /\ allResults[k].name = inputNames[i]}
            IN  /\ Cardinality(ks) = 1
                /\ \A k \in ks : allResults[k].counts = LineCounts(i)

NamesDistinct == \A i, j \in Workers : inputNames[i] = inputNames[j] => i = j

\* C6 (amended): for every source i exactly one non-aggregate result of the
\* returned list comes from source i; it is named inputNames[i] and holds the
\* line counts of inputs[i] alone.  It is the only result of that name when
\* the input names are pairwise distinct.
C6_OwnNameOwnLines ==
    Returned =>
        /\ \A i \in Workers :
              LET ks == {k \in DOMAIN allResults : allResults[k].src = i}
              IN  /\ Cardinality(ks) = 1
                  /\ \A k \in ks : /\ allResults[k].name = inputNames[i]
                                   /\ allResults[k].counts = LineCounts(i)
        /\ NamesDistinct =>
              \A i \in Workers :
                  Cardinality({k \in DOMAIN allResults :
                      allResults[k].src # 0 /\ allResults[k].name = inputNames[i]}) = 1

\* two sources of different names and different lines, finished out of order
C6_Witness ==
    /\ Returned /\ N = 2 /\ NamesDistinct
    /\ LineCounts(1) # LineCounts(2)
    /\ allResults[1].src = 2
    /\ allResults[1].counts = LineCounts(2) /\ allResults[2].counts = LineCounts(1)

HandedOff(i) == \E k \in DOMAIN sent : sent[k] = i

\* C7: the mapping of source i changes only in worker i's own counting step,
\* which comes before its send; every result in the channel or in the list
\* still holds the mapping its worker built; and after processInputs has
\* returned neither a per-source mapping nor the aggregate mapping changes,
\* so the returned Aggregate result stays equal to aggregateCounts.
C7_OwnedThenImmutable ==
    /\ [](/\ \A k \in DOMAIN resultsChan :
               resultsChan[k].counts = counts[resultsChan[k].src]
          /\ \A k \in DOMAIN allResults :
               allResults[k].counts = IF allResults[k].src = 0
                                      THEN aggregateCounts
                                      ELSE counts[allResults[k].src])
    /\ [][/\ \A i \in Workers :
               counts'[i] # counts[i] =>
                   /\ wpc[i] = "process" /\ wpc'[i] # "process"
                   /\ ~HandedOff(i)
          /\ Returned => (counts' = counts /\ aggregateCounts' = aggregateCounts)]_vars

\* a worker has handed its mapping off and is merging it while the result
\* waits in the channel
C7_Witness ==
    \E i \in Workers :
        /\ HandedOff(i) /\ wpc[i] = "mergeWrite"
        /\ counts[i] # EmptyMap
        /\ \E k \in DOMAIN resultsChan : resultsChan[k].src = i

----
(* Read-time errors *)

ErrHit(i) == werr[i] # "none"

Processed(i) == wpc[i] \notin {"unborn", "start", "process"}

\* the keys worker j has merged into the aggregate so far
MergedBy(j) ==
    IF InMerge(j) THEN DOMAIN counts[j] \ todo[j]
    ELSE IF wpc[j] \in {"finish", "defer", "done"} /\ aggregate THEN DOMAIN counts[j]
    ELSE {}

RECURSIVE MergedSum(_, _)
MergedSum(n, line) ==
    IF n = 0 THEN 0
    ELSE (IF ~ErrHit(n) /\ line \in MergedBy(n) THEN counts[n][line] ELSE 0)
         + MergedSum(n - 1, line)

\* C8: once a worker has hit a read-time error, processInputs never returns
\* and textOutput prints no result; the process ends with status 1 and with
\* no other status; the failing worker goes nowhere but into exitWithError,
\* its partial mapping is never sent and has no share in the aggregate.
C8_FatalMeansNoOutput ==
    /\ [](\A i \in Workers :
            ErrHit(i) =>
                /\ ~Returned /\ mpc # "append"
                /\ \A k \in DOMAIN stdout : stdout[k].kind # "result"
                /\ exitCode \in {-1, 1}
                /\ wpc[i] \in {"report", "exit"}
                /\ ~HandedOff(i)
                /\ \A k \in DOMAIN resultsChan : resultsChan[k].src # i
                /\ \A k \in DOMAIN allResults : allResults[k].src # i
                /\ DOMAIN aggregateCounts \subseteq UNION {MergedBy(j) : j \in Workers \ {i}}
                /\ \A line \in DOMAIN aggregateCounts :
                      aggregateCounts[line] = MergedSum(N, line))
    /\ ((\E i \in Workers : ErrHit(i)) ~> (exitCode = 1))

\* a source failed after some of its lines were counted, while the other
\* worker had finished and merged: the process has ended with status 1
C8_Witness ==
    \E i, j \in Workers :
        /\ ErrHit(i) /\ counts[i] # EmptyMap
        /\ wpc[j] = "done" /\ aggregateCounts # EmptyMap
        /\ exitCode = 1

Reports(i) == Cardinality({k \in DOMAIN stderr : stderr[k].src = i})

\* C9 (as claimed): when the process has ended, every fatal condition a
\* worker hit has been reported exactly once and the status is non-zero.
C9_EachReportedOnce ==
    (exitCode # -1) =>
        \A i \in Workers : ErrHit(i) => (Reports(i) = 1 /\ exitCode # 0)

\* C9 (amended): every fatal condition is reported at most once, by the
\* worker that hit it and with its own error, and that worker goes no
\* further than exitWithError; a failing stream always raises its error; the
\* process ends with status 1 only after a report, and whenever it ends
\* after some worker hit a fatal condition the status is 1 and at least one
\* condition has been reported.  A condition hit by another worker in the
\* meantime may remain unreported.
C9_ReportedAtMostOnce ==
    /\ \A i \in Workers :
          /\ Reports(i) <= 1
          /\ \A k \in DOMAIN stderr :
                stderr[k].src = i => (ErrHit(i) /\ stderr[k].err = werr[i])
          /\ ErrHit(i) => /\ wpc[i] \in {"report", "exit"}
                          /\ (wpc[i] = "exit") <=> (Reports(i) = 1)
          /\ (Processed(i) /\ inputs[i].fail) => ErrHit(i)
    /\ (exitCode = 1) => \E i \in Workers : wpc[i] = "exit" /\ Reports(i) = 1
    /\ (exitCode # -1 /\ \E i \in Workers : ErrHit(i)) =>
          (exitCode = 1 /\ stderr # <<>>)

\* two sources failed concurrently: one was reported and ended the process
\* before the other was
C9_Witness ==
    \E i, j \in Workers :
        /\ ErrHit(i) /\ ErrHit(j)
        /\ Reports(i) = 1 /\ Reports(j) = 0
        /\ exitCode = 1

AllWithinMax(i) ==
    \A k \in 1..Len(inputs[i].lines) : LineLen(inputs[i].lines[k]) <= maxLineLength

\* C10 (as claimed): a stream whose lines all have length at most
\* maxLineLength (and that reads without failure) is accepted and each of
\* its lines is counted; a stream with a longer line is a fatal error.
C10_AcceptsUpToMax ==
    \A i \in Workers :
        Processed(i) =>
            IF AllWithinMax(i) /\ ~inputs[i].fail
            THEN werr[i] = "none" /\ counts[i] = LineCounts(i)
            ELSE werr[i] # "none"

----
(* collectInputs *)

MaxFiles == 2

FileStates == {"missing", "empty", "data"}

\* what a file that has data holds
FileStream == [lines |-> << <<"a", 1>>, <<"A", 1>> >>, fail |-> FALSE]

procs == <<idx, wpc, counts, werr, todo, cur, sent, wg, resultsChan, chanClosed, cpc,
           aggregateCounts, aggregateMutex, allResults>>

\* if (stat.Mode() & os.ModeCharDevice) == 0 { append os.Stdin, "stdin" }
CollectStdin ==
    /\ Running /\ mpc = "stdin"
    /\ cinputs' = IF stdinPiped THEN Append(cinputs, stdinStream) ELSE cinputs
    /\ cnames' = IF stdinPiped THEN Append(cnames, "stdin") ELSE cnames
    /\ mpc' = "files"
    /\ UNCHANGED <<config, flags, files, fidx, cerr, opened, fn, procs, stdout, stderr, exitCode>>

\* one turn of the loop over strings.Split(flagFiles, ","); the handle that
\* os.Open returns in turn k is k
CollectFile ==
    /\ Running /\ mpc = "files" /\ fidx <= Len(flagFiles)
    /\ LET file == flagFiles[fidx]
       IN  IF fs[file] = "missing"
           THEN /\ opened' = cleanup(opened)
                /\ cerr' = "OpenError"
                /\ cinputs' = <<>> /\ cnames' = <<>>
                /\ mpc' = "collected"
                /\ UNCHANGED <<files, fidx>>
           ELSE IF fs[file] = "empty"
           THEN /\ opened' = cleanup(opened \cup {fidx})
                /\ cerr' = "EmptyFile"
                /\ cinputs' = <<>> /\ cnames' = <<>>
                /\ mpc' = "collected"
                /\ UNCHANGED <<files, fidx>>
           ELSE /\ opened' = opened \cup {fidx}
                /\ files' = Append(files, fidx)
                /\ cinputs' = Append(cinputs, FileStream)
                /\ cnames' = Append(cnames, file)
                /\ fidx' = fidx + 1
                /\ UNCHANGED <<cerr, mpc>>
    /\ UNCHANGED <<config, flags, fn, procs, stdout, stderr, exitCode>>

\* if len(inputs) == 0 { return ... error }; return inputs, inputNames, cleanup, nil
CollectReturn ==
    /\ Running /\ mpc = "files" /\ fidx > Len(flagFiles)
    /\ cerr' = IF Len(cinputs) = 0 THEN "NoInput" ELSE "none"
    /\ mpc' = "collected"
    /\ UNCHANGED <<config, flags, cinputs, cnames, files, fidx, opened, fn, procs,
                   stdout, stderr, exitCode>>

NextCollect == CollectStdin \/ CollectFile \/ CollectReturn

\* no processInputs in progress, no function called on its own
Quiet ==
    /\ inputs = <<>> /\ inputNames = <<>>
    /\ StartWorkers
    /\ NoFn

\* collectInputs(flagFiles) called on its own
InitCollect ==
    /\ Quiet
    /\ ignoreCase = FALSE /\ aggregate = FALSE /\ verbose = FALSE
    /\ mpc = "stdin"
    /\ DefaultSelection
    /\ flagFiles \in SeqsUpTo(Names, MaxFiles)
    /\ fs \in [Names -> FileStates]
    /\ stdinPiped \in BOOLEAN
    /\ stdinStream = [lines |-> << <<"a", 1>> >>, fail |-> FALSE]
    /\ NothingCollected

SpecCollect == InitCollect /\ [][NextCollect]_vars

----
(* main *)

MaxMainFiles == 1

\* -high, -low, -hp, -lp as given on the command line
FlagChoices ==
    { <<0, 0, Pct(0), Pct(0)>>, <<1, 1, Pct(0), Pct(0)>>, <<0, 0, Pct(500), Pct(1000)>>,
      <<-1, 0, Pct(0), Pct(0)>>, <<0, -1, Pct(0), Pct(0)>>,
      <<0, 0, Pct(-1), Pct(0)>>, <<0, 0, Pct(1001), Pct(0)>>,
      <<0, 0, Pct(0), Pct(-1)>>, <<0, 0, Pct(0), Pct(1001)>>,
      <<0, 0, NaN, Pct(0)>>, <<0, 0, Pct(0), NaN>> }

StdinStreams == [lines : {<< <<"a", 1>> >>}, fail : BOOLEAN]

\* the process as main is entered, flag.Parse() done
InitMain ==
    /\ Quiet
    /\ ignoreCase \in BOOLEAN /\ aggregate \in BOOLEAN /\ verbose \in BOOLEAN
    /\ mpc = "flags"
    /\ \E fc \in FlagChoices :
          high = fc[1] /\ low = fc[2] /\ highPercent = fc[3] /\ lowPercent = fc[4]
    /\ showVersion \in BOOLEAN
    /\ flagFiles \in SeqsUpTo({"f1"}, MaxMainFiles)
    /\ \E st \in FileStates : fs = [n \in Names |-> IF n = "f1" THEN st ELSE "missing"]
    /\ stdinPiped \in BOOLEAN
    /\ stdinStream \in StdinStreams
    /\ NothingCollected

\* a line written by main itself
MainLine(kind) == [kind |-> kind, name |-> ""]

\* exitWithError(err) in main: fmt.Fprintln(os.Stderr, err); osExit(1)
exitWithError(err) ==
    /\ stderr' = Append(stderr, [err |-> err, src |-> 0])
    /\ exitCode' = 1
    /\ mpc' = "exited"

\* if *showVersion { fmt.Printf("sus version ..."); os.Exit(0) }
MainVersion ==
    /\ Running /\ mpc = "flags" /\ showVersion
    /\ stdout' = Append(stdout, MainLine("version"))
    /\ exitCode' = 0
    /\ mpc' = "exited"
    /\ UNCHANGED <<config, flags, coll, opened, fn, procs, stderr>>

\* if *verbose { fmt.Println("Verbose mode enabled") }
MainBanner ==
    /\ Running /\ mpc = "flags" /\ ~showVersion
    /\ stdout' = IF verbose THEN Append(stdout, MainLine("banner")) ELSE stdout
    /\ mpc' = "validate"
    /\ UNCHANGED <<config, flags, coll, opened, fn, procs, stderr, exitCode>>

\* main that goes on whatever validateFlags returns
MainValidateIgnoresError ==
    /\ Running /\ mpc = "validate"
    /\ mpc' = "stdin"
    /\ UNCHANGED <<config, flags, coll, opened, fn, procs, stdout, stderr, exitCode>>

\* if err := validateFlags(...); err != nil { exitWithError(err) }
MainValidate ==
    /\ Running /\ mpc = "validate"
    /\ LET err == validateFlags(high, low, highPercent, lowPercent)
       IN  IF err # "none"
           THEN exitWithError(err)
           ELSE mpc' = "stdin" /\ UNCHANGED <<stderr, exitCode>>
    /\ UNCHANGED <<config, flags, coll, opened, fn, procs, stdout>>

\* inputs, inputNames, cleanup, err := collectInputs(...); if err != nil { exitWithError(err) }
MainCollectFailed ==
    /\ Running /\ mpc = "collected" /\ cerr # "none"
    /\ exitWithError(cerr)
    /\ UNCHANGED <<config, flags, coll, opened, fn, procs, stdout>>

\* defer cleanup(); processInputs(inputs, inputNames, ...) is entered
MainProcessInputs ==
    /\ Running /\ mpc = "collected" /\ cerr = "none"
    /\ inputs' = cinputs
    /\ inputNames' = cnames
    /\ idx' = 1
    /\ wpc' = [i \in 1..Len(cinputs) |-> "unborn"]
    /\ counts' = [i \in 1..Len(cinputs) |-> EmptyMap]
    /\ werr' = [i \in 1..Len(cinputs) |-> "none"]
    /\ todo' = [i \in 1..Len(cinputs) |-> {}]
    /\ cur' = [i \in 1..Len(cinputs) |-> <<>>]
    /\ mpc' = "spawn"
    /\ UNCHANGED <<ignoreCase, aggregate, verbose, flags, coll, opened, fn, sent, wg,
                   resultsChan, chanClosed, cpc, aggregateCounts, aggregateMutex,
                   allResults, stdout, stderr, exitCode>>

NextMain ==
    \/ MainVersion
    \/ MainBanner
    \/ MainValidate
    \/ CollectStdin
    \/ CollectFile
    \/ CollectReturn
    \/ MainCollectFailed
    \/ MainProcessInputs
    \/ Next

SpecMain == InitMain /\ [][NextMain]_vars

----
(* Input collection and flag validation *)

\* C11 (as claimed): when collectInputs returns the error of a file that
\* cannot be opened or is empty, every handle opened during the call, that
\* of the empty file included, has been closed.
C11_ClosedOnError ==
    (mpc = "collected" /\ cerr \in {"OpenError", "EmptyFile"}) => opened = {}

\* a percentage within [0, 100]
InRange(p) == ~p.nan /\ 0 <= p.v /\ p.v <= 100 * 10

SelectionInRange == high >= 0 /\ low >= 0 /\ InRange(highPercent) /\ InRange(lowPercent)

\* main has called validateFlags
Validated == ~showVersion /\ mpc \notin {"flags", "validate"}

\* main has reported the error of validateFlags
Rejected ==
    \E k \in DOMAIN stderr :
        stderr[k].src = 0 /\ stderr[k].err \in {"NegativeCount", "PercentOutOfRange"}

\* nothing has been opened, started or read
NoWorkDone ==
    /\ opened = {} /\ files = <<>> /\ cinputs = <<>>
    /\ N = 0 /\ wg = 0 /\ cpc = "unborn"
    /\ sent = <<>> /\ allResults = <<>>

\* C12 (as claimed): the selection parameters are accepted exactly when
\* high >= 0, low >= 0 and both percentages lie in [0, 100]; when they are
\* rejected the run ends with a non-zero status before any source is opened,
\* any worker started or any line read.
C12_AcceptedExactlyInRange ==
    /\ (Validated /\ ~Rejected) => SelectionInRange
    /\ Rejected => /\ ~SelectionInRange
                   /\ exitCode = 1
                   /\ NoWorkDone

\* the run has a configuration error: a selection parameter that
\* validateFlags refuses, or neither piped standard input nor a -file list
ConfigError ==
    /\ ~showVersion
    /\ \/ validateFlags(high, low, highPercent, lowPercent) # "none"
       \/ (~stdinPiped /\ flagFiles = <<>>)

\* C13 (as claimed): a run with a configuration error ends with a non-zero
\* status without having written anything to standard output, whatever
\* verbose, aggregate and ignoreCase are.
C13_NoOutputOnConfigError ==
    (ConfigError /\ exitCode # -1) => (exitCode = 1 /\ stdout = <<>>)

\* C13 (amended): a run with a configuration error never enters
\* processInputs and writes no result to standard output: standard output
\* holds nothing but the line "Verbose mode enabled", written once before
\* validation when verbose is set, and nothing when it is not.  The run can
\* only go on until it has ended with status 1 and the error on standard
\* error, whatever verbose, aggregate and ignoreCase are.
C13_OnlyBannerOnConfigError ==
    ConfigError =>
        /\ \A k \in DOMAIN stdout : stdout[k].kind = "banner"
        /\ Len(stdout) <= (IF verbose THEN 1 ELSE 0)
        /\ N = 0 /\ wg = 0 /\ allResults = <<>>
        /\ IF exitCode = -1
           THEN ENABLED NextMain
           ELSE exitCode = 1 /\ Len(stderr) = 1 /\ stderr[1].src = 0

\* no input at all with verbose, aggregate and ignoreCase set: the run has
\* ended with status 1 and the verbose line is on standard output
C13_Witness ==
    /\ ConfigError /\ verbose /\ aggregate /\ ignoreCase
    /\ cerr = "NoInput"
    /\ exitCode = 1
    /\ stdout = <<MainLine("banner")>>

----
(* Ranking and selection *)

ReturnedFrom(f) == call.f = f /\ ret.done

\* a line as the sequence of its bytes
Bytes(line) == [k \in 1..line[2] |-> Byte(line[1])]

\* x precedes y lexicographically: at the first position where they differ,
\* x has ended or has the smaller byte
LexBefore(x, y) ==
    \E k \in 1..(Len(y)) :
        /\ \A j \in 1..(k - 1) : j <= Len(x) /\ x[j] = y[j]
        /\ k > Len(x) \/ (k <= Len(x) /\ x[k] < y[k])

\* descending by count, equal counts ascending by value
IsRanked(its) ==
    \A i, j \in 1..Len(its) :
        i < j => \/ its[i].count > its[j].count
                 \/ /\ its[i].count = its[j].count
                    /\ LexBefore(Bytes(its[i].value), Bytes(its[j].value))

ItemSet(its) == {its[k] : k \in 1..Len(its)}

\* the arrangements of the items of its
Arrangements(its) ==
    {o \in [1..Len(its) -> ItemSet(its)] : ItemSet(o) = ItemSet(its)}

\* C14: for items with distinct values, in whatever arrangement they are
\* passed, sortItems returns a permutation of them that is descending by
\* count with equal counts in ascending lexicographic order of value; that
\* order is the only arrangement of the items so ranked, hence the same
\* for every order in which the mapping was iterated.
C14_RankedOrder ==
    ReturnedFrom("sortItems") =>
        /\ Len(ret.val) = Len(call.items)
        /\ ItemSet(ret.val) = ItemSet(call.items)
        /\ IsRanked(ret.val)
        /\ \A o \in Arrangements(call.items) : IsRanked(o) => o = ret.val

\* four items passed in the reverse of their ranked order, two of them with
\* equal counts, come back rearranged
C14_Witness ==
    /\ ReturnedFrom("sortItems")
    /\ Len(call.items) = MaxItems
    /\ \A k \in 1..MaxItems : ret.val[k] = call.items[MaxItems + 1 - k]
    /\ \E i, j \in 1..MaxItems : i # j /\ call.items[i].count = call.items[j].count

\* the flags of the call pass validateFlags
CallAccepted ==
    validateFlags(call.high, call.low, call.highPercent, call.lowPercent) = "none"

\* C15: for every totalItems >= 0 and every accepted selection, however
\* large, determineCounts returns highCount and lowCount within
\* 0..totalItems, and a direction asked for at least totalItems items (by
\* count, or by 100 percent) gets exactly totalItems.
C15_CountsWithinTotal ==
    (ReturnedFrom("determineCounts") /\ CallAccepted) =>
        /\ ret.val[1] \in 0..call.totalItems
        /\ ret.val[2] \in 0..call.totalItems
        /\ (~PctGreater(call.highPercent, 0) /\ call.high >= call.totalItems)
              => ret.val[1] = call.totalItems
        /\ (~PctGreater(call.lowPercent, 0) /\ call.low >= call.totalItems)
              => ret.val[2] = call.totalItems
        /\ call.highPercent = Pct(100 * 10) => ret.val[1] = call.totalItems

\* totalItems = 50 with high = 60 gave 50
C15_Witness ==
    /\ ReturnedFrom("determineCounts") /\ CallAccepted
    /\ call.totalItems = 50 /\ call.high = 60 /\ call.highPercent = Pct(0)
    /\ ret.val[1] = 50

\* C16: each direction is resolved on its own.  With a percentage greater
\* than zero the count is what the percentage alone gives, whatever the
\* absolute parameter of that direction; otherwise it is the absolute
\* parameter capped at totalItems.  In both cases it is what the call would
\* return for that direction had the other direction not been asked for.
C16_DirectionsIndependent ==
    (ReturnedFrom("determineCounts") /\ CallAccepted) =>
        LET t == call.totalItems
        IN  /\ ret.val[1] = determineCounts(t, call.high, 0, call.highPercent, Pct(0))[1]
            /\ ret.val[2] = determineCounts(t, 0, call.low, Pct(0), call.lowPercent)[2]
            /\ IF PctGreater(call.highPercent, 0)
               THEN ret.val[1] = determineCounts(t, 0, 0, call.highPercent, Pct(0))[1]
               ELSE ret.val[1] = IF call.high < t THEN call.high ELSE t
            /\ IF PctGreater(call.lowPercent, 0)
               THEN ret.val[2] = determineCounts(t, 0, 0, Pct(0), call.lowPercent)[2]
               ELSE ret.val[2] = IF call.low < t THEN call.low ELSE t

\* an absolute count for the high direction, a percentage for the low one,
\* whose absolute parameter is set too and ignored
C16_Witness ==
    /\ ReturnedFrom("determineCounts") /\ CallAccepted
    /\ call.totalItems = 100
    /\ call.high = 15 /\ call.highPercent = Pct(0)
    /\ call.low = 5 /\ call.lowPercent = Pct(10 * 10)
    /\ ret.val = <<15, 10>>

\* a percentage p with 0 < p <= 100
InPercentRange(p) == PctGreater(p, 0) /\ ~PctGreater(p, 100 * 10)

\* c is the least integer with 100 * c >= totalItems * p, p in tenths
IsCeiling(c, totalItems, p) ==
    /\ 100 * 10 * c >= totalItems * p.v
    /\ 100 * 10 * (c - 1) < totalItems * p.v

\* C17 (as claimed): for a percentage p in (0, 100] the resolved count is
\* the ceiling of totalItems * p / 100, the least integer c with
\* 100 * c >= totalItems * p: at least 1 when totalItems > 0, 0 when
\* totalItems = 0, never more than totalItems.
C17_CeilingOfPercent ==
    (ReturnedFrom("determineCounts") /\ CallAccepted /\ InPercentRange(call.highPercent)) =>
        /\ call.totalItems > 0 => ret.val[1] >= 1
        /\ call.totalItems = 0 => ret.val[1] = 0
        /\ ret.val[1] <= call.totalItems
        /\ IsCeiling(ret.val[1], call.totalItems, call.highPercent)

\* the items of the mapping m in ranked order
Ranked(m) == CHOOSE o \in ItemOrders(m) : IsRanked(o)

IsView(b) == b.view # "Blank"

\* the views printed, in order, each with its items
ViewsPrinted(blocks) ==
    LET vs == SelectSeq(blocks, IsView)
    IN  [k \in 1..Len(vs) |-> <<vs[k].view, vs[k].items>>]

\* C18: with (highCount, lowCount) resolved for the number of items,
\* printSortedResults prints the first highCount items of the ranked order
\* as the Highest view when highCount > 0, then the last lowCount items of
\* the ranked order as the Lowest view when lowCount > 0, and the whole
\* ranked list exactly when both are zero; nothing else.  Each window is
\* printed in full whether or not it overlaps the other.
C18_Views ==
    ReturnedFrom("printSortedResults") =>
        LET ranked == Ranked(call.counts)
            n == Len(ranked)
            dc == determineCounts(n, call.high, call.low, call.highPercent, call.lowPercent)
        IN  ViewsPrinted(ret.val) =
                (IF dc[1] > 0 THEN <<<<"Highest", SubSeq(ranked, 1, dc[1])>>>> ELSE <<>>)
                \o (IF dc[2] > 0
                    THEN <<<<"Lowest", SubSeq(ranked, n - dc[2] + 1, n)>>>> ELSE <<>>)
                \o (IF dc[1] = 0 /\ dc[2] = 0 THEN <<<<"All", ranked>>>> ELSE <<>>)

\* three items, the two highest and the two lowest asked for: both views
\* are printed in full and the middle item is in both
C18_Witness ==
    /\ ReturnedFrom("printSortedResults")
    /\ Cardinality(DOMAIN call.counts) = 3
    /\ call.high = 2 /\ call.low = 2
    /\ call.highPercent = Pct(0) /\ call.lowPercent = Pct(0)
    /\ Len(ret.val) = 3
    /\ ret.val[1].view = "Highest" /\ Len(ret.val[1].items) = 2
    /\ ret.val[3].view = "Lowest" /\ Len(ret.val[3].items) = 2
    /\ ret.val[1].items[2] = ret.val[3].items[1]

----
(* Counting *)

\* the sum of the counts of the mapping m
RECURSIVE MapTotal(_)
MapTotal(m) ==
    IF DOMAIN m = {} THEN 0
    ELSE LET k == CHOOSE x \in DOMAIN m : TRUE
         IN  m[k] + MapTotal([x \in DOMAIN m \ {k} |-> m[x]])

\* C19 (as claimed): for a stream of valid lines (none longer than
\* maxLineLength) that reads to its end, processInput returns without error
\* the mapping whose keys are the distinct normalized lines and whose value
\* for a key is the number of lines normalizing to it (lowercasing when
\* ignoreCase is set, the identity otherwise); every count is at least 1 and
\* the counts sum to the number of lines.
C19_FrequencyMapping ==
    \A i \in Workers :
        (Processed(i) /\ AllWithinMax(i) /\ ~inputs[i].fail) =>
            /\ werr[i] = "none"
            /\ DOMAIN counts[i] = KeysOf(i)
            /\ \A key \in DOMAIN counts[i] :
                  counts[i][key] = Occurrences(i, key) /\ counts[i][key] >= 1
            /\ MapTotal(counts[i]) = Len(inputs[i].lines)

----
(* Verbose notices *)

\* the number of entries of kind for name among the first n entries of stdout
NoticeCount(kind, name, n) ==
    Cardinality({k \in 1..n : stdout[k].kind = kind /\ stdout[k].name = name})

SourcesNamed(name) == Cardinality({i \in Workers : inputNames[i] = name})

\* C20: the notices never interleave with the result output: no notice is
\* written after an entry of textOutput; once processInputs has returned in
\* verbose mode every source has its "Processing input" and its "Finished
\* processing input" notice on stdout; and at every moment each name has at
\* least as many start notices as finished notices, so a source's start
\* notice precedes its finished notice.
C20_NoticesBeforeResults ==
    /\ \A k, l \in DOMAIN stdout :
          (k < l /\ stdout[k].kind = "result") => stdout[l].kind = "result"
    /\ \A name \in Names : \A n \in 0..Len(stdout) :
          NoticeCount("finished", name, n) <= NoticeCount("processing", name, n)
    /\ (Returned /\ verbose) =>
          \A name \in Names :
              /\ NoticeCount("processing", name, Len(stdout)) = SourcesNamed(name)
              /\ NoticeCount("finished", name, Len(stdout)) = SourcesNamed(name)

\* two sources in verbose mode: both started before either finished, and
\* the results were printed after the four notices
C20_Witness ==
    /\ verbose /\ N = 2 /\ mpc = "printed"
    /\ Len(stdout) >= 6
    /\ stdout[1].kind = "processing" /\ stdout[2].kind = "processing"
    /\ stdout[3].kind = "finished" /\ stdout[4].kind = "finished"
    /\ stdout[3].name = stdout[2].name /\ stdout[1].name # stdout[2].name
    /\ stdout[5].kind = "result"

----
(* Termination and the results channel *)

\* every stream is read to its end without error
ErrorFree == \A i \in Workers : processInput(inputs[i], ignoreCase).err = "none"

\* C21: with any number of sources, N = 0 included, whose streams are read
\* without error, processInputs returns in every fair run.  On the way no
\* send can block (a worker about to send finds the channel open and with
\* room, since its capacity is N and each worker sends once), a worker
\* waiting for the aggregate mutex waits for another worker that holds it
\* and is in the middle of its merge, and the process neither exits nor
\* panics.
C21_EventuallyReturns ==
    /\ [](ErrorFree =>
            /\ exitCode \in {-1, 0}
            /\ \A i \in Workers :
                  /\ wpc[i] = "send" => (~chanClosed /\ Len(resultsChan) < N)
                  /\ (wpc[i] = "lock" /\ aggregateMutex # 0) =>
                        /\ aggregateMutex \in Workers \ {i}
                        /\ wpc[aggregateMutex] \in {"merge", "mergeWrite"})
    /\ (ErrorFree ~> Returned)

\* processInputs has returned for the largest number of error-free sources,
\* each of at least one line, with the aggregate asked for
C21_Witness ==
    /\ ErrorFree /\ N = MaxSources /\ aggregate /\ verbose
    /\ mpc = "returned"
    /\ \A i \in Workers : Len(inputs[i].lines) = MaxLines
    /\ Len(allResults) = N + 1

\* the number of sends worker i has made
Sends(i) == Cardinality({k \in DOMAIN sent : sent[k] = i})

\* the sources of a sequence of results, the aggregate left out
RECURSIVE SourcesOf(_)
SourcesOf(rs) ==
    IF rs = <<>> THEN <<>>
    ELSE (IF Head(rs).src = 0 THEN <<>> ELSE <<Head(rs).src>>) \o SourcesOf(Tail(rs))

\* C22: the results channel is closed once, by the closer, and only after
\* every worker has made its single send and ended: the process never
\* panics on a send on (or a second close of) the closed channel; no worker
\* sends twice; the results sent are, in order, those already received by
\* the collecting loop followed by those still in the channel, so none is
\* lost or received twice; and when processInputs has returned all N have
\* been received and the channel is empty and closed.
C22_ClosedOnceAfterSends ==
    /\ [](/\ exitCode # 2
          /\ chanClosed <=> (cpc = "done")
          /\ chanClosed => \A i \in Workers : wpc[i] = "done" /\ Sends(i) = 1
          /\ \A i \in Workers :
                /\ Sends(i) <= 1
                /\ Sends(i) = 1 <=> wpc[i] \in {"lock", "merge", "mergeWrite", "finish",
                                                "defer", "done"}
          /\ sent = SourcesOf(allResults) \o SourcesOf(resultsChan)
          /\ Len(resultsChan) <= N
          /\ Returned => /\ chanClosed /\ resultsChan = <<>>
                         /\ Len(sent) = N
                         /\ SourcesOf(allResults) = sent)
    /\ [][/\ chanClosed => chanClosed'
          /\ (~chanClosed /\ chanClosed') => (cpc = "close" /\ wg = 0)]_vars

\* the channel has been closed while a result was still in it, the other
\* one already received
C22_Witness ==
    /\ N = 2 /\ mpc = "collect"
    /\ chanClosed
    /\ Len(resultsChan) = 1 /\ Len(allResults) = 1
    /\ allResults[1].src # resultsChan[1].src

====
